---- MODULE Spec2Model ----
(***************************************************************************)
(* A model of stockscreener.py: the cached catalog loader, the cached      *)
(* per-symbol metrics fetcher and one rerun of main() (widgets, filter     *)
(* stage, display transforms).                                             *)
(*                                                                         *)
(* Numbers are fixed-point with two decimals: the integer n stands for     *)
(* n/100, so 50.0 is 5000 and the fraction 0.02 is 2.  A nullable number   *)
(* is a sequence: <<>> is None/NaN, <<n>> is the number n.                 *)
(***************************************************************************)
EXTENDS Integers, Sequences, FiniteSets, TLC

VARIABLES
    pc,            \* position of the script run
    catalogCache,  \* st.cache_data of load_sp500_tickers: <<>> or <<catalog>>
    metricsCache,  \* st.cache_data of fetch_stock_data: set of [key, value]
    sp500,         \* main(): the catalog of this run
    tickers,       \* main(): sp500['Symbol'].tolist()
    crit,          \* main(): the widget values of this run
    i,             \* fetch_stock_data: index of the symbol being fetched
    data_list,     \* fetch_stock_data: the list `data` of row dicts
    raised,        \* symbols whose fetch raised in the last fetch (history)
    data,          \* main(): the DataFrame `data`
    shown,         \* what st.dataframe / to_csv received: <<>> or <<table>>
    err,           \* the exception that ended the run, "" when none
    netCalls       \* network calls made so far by the current run

vars == <<pc, catalogCache, metricsCache, sp500, tickers, crit, i, data_list,
          raised, data, shown, err, netCalls>>

\* ------------------------------------------------------------------ bounds
MaxTickers == 2

\* ------------------------------------------------------------- numbers
Fixed(n) == n * 100

None == <<>>
Some(n) == <<n>>

\* pandas comparison of a nullable number with a scalar: None/NaN gives False
Ge(v, b) == v # None /\ v[1] >= b
Le(v, b) == v # None /\ v[1] <= b

\* ------------------------------------------------- the reference page
RequiredColumns == {"Symbol", "Security", "GICS Sector", "GICS Sub-Industry"}

SymbolName(n) == "SYM" \o ToString(n)

\* One row of the constituents table as read by pd.read_html; the page has
\* more columns than the script keeps.
WikiRow(n) ==
    ("Symbol" :> SymbolName(n)) @@ ("Security" :> "Security " \o ToString(n))
    @@ ("GICS Sector" :> (IF n % 2 = 1 THEN "Energy" ELSE "Information Technology"))
    @@ ("GICS Sub-Industry" :> (IF n % 2 = 1 THEN "Oil & Gas" ELSE "Software"))
    @@ ("CIK" :> ToString(n))

WikiColumns == RequiredColumns \cup {"CIK"}

\* What tables[0] can be: the listing with 1..MaxTickers constituents, or the
\* same listing after a schema change that renamed one expected column.
GoodPages == { [columns |-> WikiColumns, rows |-> [k \in 1..n |-> WikiRow(k)]] :
                 n \in 1..MaxTickers }
Restrict(f, S) == [k \in S |-> f[k]]
BadPages == { [columns |-> WikiColumns \ {c},
               rows |-> [k \in 1..1 |-> Restrict(WikiRow(k), WikiColumns \ {c})]] :
                 c \in {"GICS Sector", "Symbol"} }
Pages == GoodPages \cup BadPages

\* df[[...]] raises KeyError when a requested column is absent
SelectRaises(df, cols) == ~(cols \subseteq df.columns)
SelectColumns(df, cols) ==
    [columns |-> cols, rows |-> [k \in 1..Len(df.rows) |-> Restrict(df.rows[k], cols)]]

\* load_sp500_tickers, given what pd.read_html returned
load_sp500_tickers(page) == SelectColumns(page, RequiredColumns)

Column(df, c) == [k \in 1..Len(df.rows) |-> df.rows[k][c]]
Range(seq) == { seq[k] : k \in 1..Len(seq) }

\* ------------------------------------------------- the market-data provider
NoDate == [type |-> "NoneType", ymd |-> <<>>, text |-> ""]
Datetime(y, m, d) == [type |-> "datetime", ymd |-> <<y, m, d>>, text |-> ""]
Str(t) == [type |-> "str", ymd |-> <<>>, text |-> t]

\* A complete snapshot (stock.info) with every value inside every slider's
\* default range.
BaseInfo ==
    ("shortName" :> "Acme") @@ ("sector" :> "Energy") @@ ("industry" :> "Oil & Gas")
    @@ ("regularMarketPrice" :> Fixed(50)) @@ ("volume" :> Fixed(1000))
    @@ ("marketCap" :> Fixed(900000)) @@ ("trailingPE" :> Fixed(20))
    @@ ("forwardPE" :> Fixed(15)) @@ ("trailingEps" :> 250)
    @@ ("dividendYield" :> 2) @@ ("fiftyTwoWeekHigh" :> Fixed(60))
    @@ ("fiftyTwoWeekLow" :> Fixed(40)) @@ ("beta" :> 100)
    @@ ("priceToBook" :> Fixed(3)) @@ ("returnOnEquity" :> 20)
    @@ ("debtToEquity" :> Fixed(5)) @@ ("totalRevenue" :> Fixed(800000))
    @@ ("grossMargins" :> 40) @@ ("operatingMargins" :> 25)
    @@ ("freeCashflow" :> Fixed(70000)) @@ ("earningsDate" :> Datetime(2026, 1, 15))
    @@ ("exchange" :> "NYQ") @@ ("country" :> "United States")
    @@ ("website" :> "https://acme.example")

\* The keys the filter stage reads, and for each one other values the
\* provider may report.
NumericKeys == {"regularMarketPrice", "trailingPE", "forwardPE", "priceToBook",
                "trailingEps", "returnOnEquity", "beta", "dividendYield",
                "grossMargins", "operatingMargins", "fiftyTwoWeekLow",
                "fiftyTwoWeekHigh", "debtToEquity"}

OtherValues(k) ==
    CASE k = "regularMarketPrice" -> {Fixed(2500)}
      [] k = "trailingPE"         -> {Fixed(150)}
      [] k = "forwardPE"          -> {-Fixed(5)}
      [] k = "priceToBook"        -> {Fixed(4)}
      [] k = "trailingEps"        -> {-250}
      [] k = "returnOnEquity"     -> {21}
      [] k = "beta"               -> {101}
      [] k = "dividendYield"      -> {3}
      [] k = "grossMargins"       -> {41}
      [] k = "operatingMargins"   -> {24}
      [] k = "fiftyTwoWeekLow"    -> {Fixed(39), Fixed(61)}
      [] k = "fiftyTwoWeekHigh"   -> {Fixed(39), Fixed(61)}
      [] k = "debtToEquity"       -> {Fixed(6)}

Infos ==
    {BaseInfo}
    \cup { Restrict(BaseInfo, DOMAIN BaseInfo \ {k}) : k \in NumericKeys }
    \cup UNION { { [BaseInfo EXCEPT ![k] = v] : v \in OtherValues(k) } : k \in NumericKeys }
    \cup { [BaseInfo EXCEPT !["sector"] = "Technology", !["industry"] = "Software",
                            !["website"] = "", !["earningsDate"] = NoDate] }

\* The snapshots the session model lets the provider answer with.
SessionInfos ==
    { BaseInfo,
      Restrict(BaseInfo, DOMAIN BaseInfo \ {"dividendYield"}),
      [BaseInfo EXCEPT !["regularMarketPrice"] = Fixed(2500)],
      [BaseInfo EXCEPT !["sector"] = "Technology", !["industry"] = "Software",
                       !["website"] = "", !["earningsDate"] = NoDate] }

\* dict.get(key, default)
GetNum(info, k) == IF k \in DOMAIN info THEN Some(info[k]) ELSE None
GetStr(info, k) == IF k \in DOMAIN info THEN info[k] ELSE ""
GetDate(info, k) == IF k \in DOMAIN info THEN info[k] ELSE NoDate

Columns == {"Symbol", "Name", "Sector", "Industry", "Price", "Volume", "Market Cap",
            "P/E Ratio", "Forward P/E", "EPS", "Dividend Yield", "52W High",
            "52W Low", "Beta", "Price/Book", "ROE", "Debt/Equity", "Revenue",
            "Gross Margin", "Operating Margin", "Free Cash Flow", "Next Earnings",
            "Exchange", "Country", "Website"}

\* The dict appended for one symbol
MakeRow(symbol, info) ==
    ("Symbol" :> symbol) @@ ("Name" :> GetStr(info, "shortName"))
    @@ ("Sector" :> GetStr(info, "sector")) @@ ("Industry" :> GetStr(info, "industry"))
    @@ ("Price" :> GetNum(info, "regularMarketPrice"))
    @@ ("Volume" :> GetNum(info, "volume"))
    @@ ("Market Cap" :> GetNum(info, "marketCap"))
    @@ ("P/E Ratio" :> GetNum(info, "trailingPE"))
    @@ ("Forward P/E" :> GetNum(info, "forwardPE"))
    @@ ("EPS" :> GetNum(info, "trailingEps"))
    @@ ("Dividend Yield" :> GetNum(info, "dividendYield"))
    @@ ("52W High" :> GetNum(info, "fiftyTwoWeekHigh"))
    @@ ("52W Low" :> GetNum(info, "fiftyTwoWeekLow"))
    @@ ("Beta" :> GetNum(info, "beta"))
    @@ ("Price/Book" :> GetNum(info, "priceToBook"))
    @@ ("ROE" :> GetNum(info, "returnOnEquity"))
    @@ ("Debt/Equity" :> GetNum(info, "debtToEquity"))
    @@ ("Revenue" :> GetNum(info, "totalRevenue"))
    @@ ("Gross Margin" :> GetNum(info, "grossMargins"))
    @@ ("Operating Margin" :> GetNum(info, "operatingMargins"))
    @@ ("Free Cash Flow" :> GetNum(info, "freeCashflow"))
    @@ ("Next Earnings" :> GetDate(info, "earningsDate"))
    @@ ("Exchange" :> GetStr(info, "exchange"))
    @@ ("Country" :> GetStr(info, "country"))
    @@ ("Website" :> GetStr(info, "website"))

\* pd.DataFrame(list of dicts): the columns are the keys of the dicts, so an
\* empty list gives a frame with no columns at all.
DataFrame(rows) == [columns |-> IF rows = <<>> THEN {} ELSE Columns, rows |-> rows]

\* ------------------------------------------------------------ the widgets
\* The sliders: name |-> <<min_value, max_value>>, which is also the default
\* selection.  'Dividend Yield' is in percent; '52W' is the '52W Price Range'.
Sliders ==
    ("Price" :> <<Fixed(0), Fixed(2000)>>) @@ ("P/E Ratio" :> <<Fixed(0), Fixed(100)>>)
    @@ ("Forward P/E" :> <<Fixed(0), Fixed(100)>>) @@ ("Price/Book" :> <<Fixed(0), Fixed(50)>>)
    @@ ("EPS" :> <<-Fixed(50), Fixed(50)>>) @@ ("ROE" :> <<-Fixed(1), Fixed(2)>>)
    @@ ("Beta" :> <<-Fixed(2), Fixed(4)>>) @@ ("Dividend Yield" :> <<Fixed(0), Fixed(10)>>)
    @@ ("Gross Margin" :> <<Fixed(0), Fixed(1)>>) @@ ("Operating Margin" :> <<Fixed(0), Fixed(1)>>)
    @@ ("52W" :> <<Fixed(0), Fixed(2000)>>) @@ ("Debt/Equity" :> <<Fixed(0), Fixed(10)>>)

\* Positions a user may drag each slider to (whole percents for the yield).
Narrowed ==
    ("Price" :> <<Fixed(50), Fixed(50)>>) @@ ("P/E Ratio" :> <<Fixed(20), Fixed(20)>>)
    @@ ("Forward P/E" :> <<Fixed(15), Fixed(15)>>) @@ ("Price/Book" :> <<Fixed(3), Fixed(3)>>)
    @@ ("EPS" :> <<250, 250>>) @@ ("ROE" :> <<20, 20>>)
    @@ ("Beta" :> <<100, 100>>) @@ ("Dividend Yield" :> <<Fixed(2), Fixed(2)>>)
    @@ ("Gross Margin" :> <<40, 40>>) @@ ("Operating Margin" :> <<25, 25>>)
    @@ ("52W" :> <<Fixed(40), Fixed(60)>>) @@ ("Debt/Equity" :> <<Fixed(5), Fixed(5)>>)

\* st.slider returns a pair inside the slider's domain with min <= max
ValidRange(name, r) ==
    Sliders[name][1] <= r[1] /\ r[1] <= r[2] /\ r[2] <= Sliders[name][2]

Default == [sector |-> {}, industry |-> {}, range |-> Sliders]

\* The widget values of one run: the multiselects offer the catalog's
\* sectors and sub-industries.
WidgetChoices(catalog) ==
    { [Default EXCEPT !.sector = s, !.industry = t] :
        s \in SUBSET Range(Column(catalog, "GICS Sector")),
        t \in SUBSET Range(Column(catalog, "GICS Sub-Industry")) }
    \cup { [Default EXCEPT !.range[n] = Narrowed[n]] :
               n \in {m \in DOMAIN Sliders : ValidRange(m, Narrowed[m])} }

\* ------------------------------------------------------- the filter stage
\* (mutant) the selection is ignored
isin_ignored(rows, col, sel) == rows

\* data[data[col].isin(sel)]
isin(rows, col, sel) ==
    LET keep(r) == r[col] \in sel IN SelectSeq(rows, keep)

\* (mutant) exclusive bounds
between_exclusive(rows, col, lo, hi) ==
    LET keep(r) == r[col] # None /\ r[col][1] > lo /\ r[col][1] < hi IN SelectSeq(rows, keep)

\* (mutant) a null passes the range test
between_nullok(rows, col, lo, hi) ==
    LET keep(r) == r[col] = None \/ (r[col][1] >= lo /\ r[col][1] <= hi) IN SelectSeq(rows, keep)

\* data[(data[col] >= lo) & (data[col] <= hi)]
between(rows, col, lo, hi) ==
    LET keep(r) == Ge(r[col], lo) /\ Le(r[col], hi) IN SelectSeq(rows, keep)

\* (mutant) both 52W fields are held to both bounds
range52w_both(rows, lo, hi) ==
    LET keep(r) == /\ Ge(r["52W Low"], lo) /\ Le(r["52W Low"], hi)
                   /\ Ge(r["52W High"], lo) /\ Le(r["52W High"], hi)
    IN  SelectSeq(rows, keep)

\* data[(data['52W Low'] >= min_52wlow) & (data['52W High'] <= max_52whigh)]
range52w(rows, lo, hi) ==
    LET keep(r) == Ge(r["52W Low"], lo) /\ Le(r["52W High"], hi) IN SelectSeq(rows, keep)

\* (mutant) the yield bounds are used in percent
Div100_percent(x) == x

\* min_div/100, max_div/100
Div100(x) == x \div 100

\* The columns lines 84-99 index; data[col] raises KeyError on a missing one
ColumnsRead(c) ==
    (IF c.sector # {} THEN {"Sector"} ELSE {})
    \cup (IF c.industry # {} THEN {"Industry"} ELSE {})
    \cup {"Price", "P/E Ratio", "Forward P/E", "Price/Book", "EPS", "ROE", "Beta",
          "Dividend Yield", "Gross Margin", "Operating Margin", "52W Low", "52W High",
          "Debt/Equity"}

FilterRaises(df, c) == ~(ColumnsRead(c) \subseteq df.columns)

FilterRows(rows, c) ==
    LET d1  == IF c.sector # {} THEN isin(rows, "Sector", c.sector) ELSE rows
        d2  == IF c.industry # {} THEN isin(d1, "Industry", c.industry) ELSE d1
        d3  == between(d2, "Price", c.range["Price"][1], c.range["Price"][2])
        d4  == between(d3, "P/E Ratio", c.range["P/E Ratio"][1], c.range["P/E Ratio"][2])
        d5  == between(d4, "Forward P/E", c.range["Forward P/E"][1], c.range["Forward P/E"][2])
        d6  == between(d5, "Price/Book", c.range["Price/Book"][1], c.range["Price/Book"][2])
        d7  == between(d6, "EPS", c.range["EPS"][1], c.range["EPS"][2])
        d8  == between(d7, "ROE", c.range["ROE"][1], c.range["ROE"][2])
        d9  == between(d8, "Beta", c.range["Beta"][1], c.range["Beta"][2])
        d10 == between(d9, "Dividend Yield", Div100(c.range["Dividend Yield"][1]),
                                             Div100(c.range["Dividend Yield"][2]))
        d11 == between(d10, "Gross Margin", c.range["Gross Margin"][1], c.range["Gross Margin"][2])
        d12 == between(d11, "Operating Margin", c.range["Operating Margin"][1],
                                                c.range["Operating Margin"][2])
        d13 == range52w(d12, c.range["52W"][1], c.range["52W"][2])
        d14 == between(d13, "Debt/Equity", c.range["Debt/Equity"][1], c.range["Debt/Equity"][2])
    IN  d14

\* ------------------------------------------------- the display transforms
\* data[col] * 100
Mul100(v) == IF v = None THEN None ELSE Some(v[1] * 100)

Pad(n, width) == IF width = 2 /\ n < 10 THEN "0" \o ToString(n) ELSE ToString(n)

\* x.strftime('%Y-%m-%d') if isinstance(x, (datetime, pd.Timestamp)) else x
strftime(x) ==
    IF x.type = "datetime"
    THEN Str(Pad(x.ymd[1], 4) \o "-" \o Pad(x.ymd[2], 2) \o "-" \o Pad(x.ymd[3], 2))
    ELSE x

\* f"[Link]({x})" if x else ""
Link(x) == IF x # "" THEN "[Link](" \o x \o ")" ELSE ""

FormatRow(r) ==
    [r EXCEPT !["Dividend Yield"] = Mul100(@),
              !["Gross Margin"] = Mul100(@),
              !["Operating Margin"] = Mul100(@),
              !["Next Earnings"] = strftime(@),
              !["Website"] = Link(@)]

FormatRows(rows) == [k \in 1..Len(rows) |-> FormatRow(rows[k])]

\* ------------------------------------------------------------- the script
NoFrame == [columns |-> {}, rows |-> <<>>]
NoWidgets == Default

Init ==
    /\ pc = "start"
    /\ catalogCache = <<>>
    /\ metricsCache = {}
    /\ sp500 = NoFrame
    /\ tickers = <<>>
    /\ crit = NoWidgets
    /\ i = 0
    /\ data_list = <<>>
    /\ raised = {}
    /\ data = NoFrame
    /\ shown = <<>>
    /\ err = ""
    /\ netCalls = 0

\* A rerun starts from a clean script state; only the caches survive.
Rerun ==
    /\ crit' = NoWidgets
    /\ data' = NoFrame
    /\ shown' = <<>>
    /\ UNCHANGED <<metricsCache, i, data_list, raised>>

\* line 57, cache hit
LoadCatalogCached ==
    /\ pc = "start"
    /\ catalogCache # <<>>
    /\ sp500' = catalogCache[1]
    /\ tickers' = Column(catalogCache[1], "Symbol")
    /\ pc' = "widgets"
    /\ err' = ""
    /\ netCalls' = 0
    /\ Rerun
    /\ UNCHANGED catalogCache

\* line 57, cache miss, lines 8-11 return
LoadCatalogOk ==
    /\ pc = "start"
    /\ catalogCache = <<>>
    /\ \E page \in Pages :
         /\ ~SelectRaises(page, RequiredColumns)
         /\ catalogCache' = <<load_sp500_tickers(page)>>
         /\ sp500' = load_sp500_tickers(page)
         /\ tickers' = Column(load_sp500_tickers(page), "Symbol")
    /\ pc' = "widgets"
    /\ err' = ""
    /\ netCalls' = 1
    /\ Rerun

\* line 57, cache miss, line 11 raises: nothing is cached, main() ends
LoadCatalogKeyError ==
    /\ pc = "start"
    /\ catalogCache = <<>>
    /\ \E page \in Pages : SelectRaises(page, RequiredColumns)
    /\ pc' = "start"
    /\ err' = "catalog KeyError"
    /\ netCalls' = 1
    /\ sp500' = NoFrame
    /\ tickers' = <<>>
    /\ Rerun
    /\ UNCHANGED catalogCache

\* line 57, cache miss, line 9 raises (source unreachable)
LoadCatalogUnreachable ==
    /\ pc = "start"
    /\ catalogCache = <<>>
    /\ pc' = "start"
    /\ err' = "catalog URLError"
    /\ netCalls' = 1
    /\ sp500' = NoFrame
    /\ tickers' = <<>>
    /\ Rerun
    /\ UNCHANGED catalogCache

\* lines 60-82 with the button pressed
RunScreener ==
    /\ pc = "widgets"
    /\ \E c \in WidgetChoices(sp500) : crit' = c
    /\ pc' = "fetch"
    /\ UNCHANGED <<catalogCache, metricsCache, sp500, tickers, i, data_list, raised,
                   data, shown, err, netCalls>>

\* lines 60-82 and 110-111: the button was not pressed
NoRun ==
    /\ pc = "widgets"
    /\ \E c \in WidgetChoices(sp500) : crit' = c
    /\ pc' = "start"
    /\ UNCHANGED <<catalogCache, metricsCache, sp500, tickers, i, data_list, raised,
                   data, shown, err, netCalls>>

\* line 83, cache hit
FetchCached ==
    /\ pc = "fetch"
    /\ \E e \in metricsCache : e.key = tickers /\ data' = e.value
    /\ pc' = "filter"
    /\ UNCHANGED <<catalogCache, metricsCache, sp500, tickers, crit, i, data_list,
                   raised, shown, err, netCalls>>

\* line 83, cache miss, line 15
FetchStart ==
    /\ pc = "fetch"
    /\ \A e \in metricsCache : e.key # tickers
    /\ i' = 1
    /\ data_list' = <<>>
    /\ raised' = {}
    /\ pc' = "loop"
    /\ UNCHANGED <<catalogCache, metricsCache, sp500, tickers, crit, data, shown,
                   err, netCalls>>

\* lines 16-46 for one symbol
FetchSymbolOk ==
    /\ pc = "loop"
    /\ i <= Len(tickers)
    /\ \E info \in SessionInfos : data_list' = Append(data_list, MakeRow(tickers[i], info))
    /\ i' = i + 1
    /\ netCalls' = netCalls + 1
    /\ UNCHANGED <<pc, catalogCache, metricsCache, sp500, tickers, crit, raised, data,
                   shown, err>>

\* (mutant) the exception ends the loop instead of skipping the symbol
FetchSymbolRaises_break ==
    /\ pc = "loop"
    /\ i <= Len(tickers)
    /\ raised' = raised \cup {tickers[i]}
    /\ i' = Len(tickers) + 1
    /\ netCalls' = netCalls + 1
    /\ UNCHANGED <<pc, catalogCache, metricsCache, sp500, tickers, crit, data_list,
                   data, shown, err>>

\* lines 16-19 and 47-48: the request raised, nothing is appended
FetchSymbolRaises ==
    /\ pc = "loop"
    /\ i <= Len(tickers)
    /\ raised' = raised \cup {tickers[i]}
    /\ i' = i + 1
    /\ netCalls' = netCalls + 1
    /\ UNCHANGED <<pc, catalogCache, metricsCache, sp500, tickers, crit, data_list,
                   data, shown, err>>

\* line 49, and the result is cached under the argument
FetchReturn ==
    /\ pc = "loop"
    /\ i > Len(tickers)
    /\ data' = DataFrame(data_list)
    /\ metricsCache' = metricsCache \cup {[key |-> tickers, value |-> DataFrame(data_list)]}
    /\ pc' = "filter"
    /\ UNCHANGED <<catalogCache, sp500, tickers, crit, i, data_list, raised, shown,
                   err, netCalls>>

\* lines 84-99
FilterOk ==
    /\ pc = "filter"
    /\ ~FilterRaises(data, crit)
    /\ data' = [data EXCEPT !.rows = FilterRows(data.rows, crit)]
    /\ pc' = "format"
    /\ UNCHANGED <<catalogCache, metricsCache, sp500, tickers, crit, i, data_list,
                   raised, shown, err, netCalls>>

\* lines 84-99, a data[col] raises: main() ends with the exception
FilterKeyError ==
    /\ pc = "filter"
    /\ FilterRaises(data, crit)
    /\ err' = "filter KeyError"
    /\ pc' = "start"
    /\ UNCHANGED <<catalogCache, metricsCache, sp500, tickers, crit, i, data_list,
                   raised, data, shown, netCalls>>

\* (mutant) the transforms are applied to the cached frame itself
Format_inplace ==
    /\ pc = "format"
    /\ data' = [data EXCEPT !.rows = FormatRows(data.rows)]
    /\ shown' = <<[data EXCEPT !.rows = FormatRows(data.rows)]>>
    /\ metricsCache' = { IF e.key = tickers
                         THEN [e EXCEPT !.value.rows = FormatRows(e.value.rows)]
                         ELSE e : e \in metricsCache }
    /\ pc' = "start"
    /\ UNCHANGED <<catalogCache, sp500, tickers, crit, i, data_list, raised, err, netCalls>>

\* lines 101-109
Format ==
    /\ pc = "format"
    /\ data' = [data EXCEPT !.rows = FormatRows(data.rows)]
    /\ shown' = <<[data EXCEPT !.rows = FormatRows(data.rows)]>>
    /\ pc' = "start"
    /\ UNCHANGED <<catalogCache, metricsCache, sp500, tickers, crit, i, data_list,
                   raised, err, netCalls>>

Next ==
    \/ LoadCatalogCached
    \/ LoadCatalogOk
    \/ LoadCatalogKeyError
    \/ LoadCatalogUnreachable
    \/ RunScreener
    \/ NoRun
    \/ FetchCached
    \/ FetchStart
    \/ FetchSymbolOk
    \/ FetchSymbolRaises
    \/ FetchReturn
    \/ FilterOk
    \/ FilterKeyError
    \/ Format

Spec == Init /\ [][Next]_vars

\* ---------------------------------------------- the filter stage on its own
\* The states in which line 84 is reached on a first run, with the provider
\* answering from all of Infos for at most one symbol and from SessionInfos
\* for the others; an outcome is <<>> (the request raised) or <<info>>.
Outcomes(infos) == {<<>>} \cup { <<info>> : info \in infos }

RowsOf(syms, outcome) ==
    LET ok(k) == outcome[k] # <<>>
        F[k \in 0..Len(syms)] ==
            IF k = 0 THEN <<>>
            ELSE IF ok(k) THEN Append(F[k-1], MakeRow(syms[k], outcome[k][1]))
            ELSE F[k-1]
    IN  F[Len(syms)]

InitFilter ==
    \E page \in GoodPages :
      \E outcome \in [1..Len(page.rows) -> Outcomes(Infos)] :
        LET catalog == load_sp500_tickers(page)
            syms == Column(catalog, "Symbol")
        IN  /\ Cardinality({k \in DOMAIN outcome : outcome[k] \notin Outcomes(SessionInfos)}) <= 1
            /\ pc = "filter"
            /\ catalogCache = <<catalog>>
            /\ sp500 = catalog
            /\ tickers = syms
            /\ crit \in WidgetChoices(catalog)
            /\ i = Len(syms) + 1
            /\ data_list = RowsOf(syms, outcome)
            /\ raised = { syms[k] : k \in {j \in DOMAIN outcome : outcome[j] = <<>>} }
            /\ data = DataFrame(RowsOf(syms, outcome))
            /\ metricsCache = {[key |-> syms, value |-> DataFrame(RowsOf(syms, outcome))]}
            /\ shown = <<>>
            /\ err = ""
            /\ netCalls = 1 + Len(syms)

NextFilter ==
    \/ FilterOk
    \/ FilterKeyError
    \/ Format

SpecFilter == InitFilter /\ [][NextFilter]_vars

\* ================================================================ claims
\* The table fetch_stock_data returned to this run (the cached value).
Fetched == (CHOOSE e \in metricsCache : e.key = tickers).value

FilteredColumns == {"Price", "P/E Ratio", "Forward P/E", "Price/Book", "EPS", "ROE",
                    "Beta", "Dividend Yield", "Gross Margin", "Operating Margin",
                    "52W Low", "52W High", "Debt/Equity"}
PercentColumns == {"Dividend Yield", "Gross Margin", "Operating Margin"}
NumericColumns == FilteredColumns \cup {"Volume", "Market Cap", "Revenue", "Free Cash Flow"}

\* The criteria that test one field, named like the column they test
SingleFieldCriteria == DOMAIN Sliders \ {"52W"}

\* The criterion's bounds on the scale of the fetched value: the yield
\* slider is in percent, the fetched yield is a fraction.
Lo(c, n) == IF n = "Dividend Yield" THEN c.range[n][1] \div 100 ELSE c.range[n][1]
Hi(c, n) == IF n = "Dividend Yield" THEN c.range[n][2] \div 100 ELSE c.range[n][2]

Within(v, lo, hi) == v # None /\ lo <= v[1] /\ v[1] <= hi

CategoryOk(r, c) ==
    /\ c.sector = {} \/ r["Sector"] \in c.sector
    /\ c.industry = {} \/ r["Industry"] \in c.industry

SingleFieldOk(r, c) == \A n \in SingleFieldCriteria : Within(r[n], Lo(c, n), Hi(c, n))

Range52WOk(r, c) ==
    /\ r["52W Low"] # None /\ r["52W Low"][1] >= c.range["52W"][1]
    /\ r["52W High"] # None /\ r["52W High"][1] <= c.range["52W"][2]

Satisfies(r, c) == CategoryOk(r, c) /\ SingleFieldOk(r, c) /\ Range52WOk(r, c)

\* The reading in which the 52W range bounds each of the two fields
SatisfiesAsClaimed(r, c) ==
    /\ CategoryOk(r, c)
    /\ SingleFieldOk(r, c)
    /\ Within(r["52W Low"], c.range["52W"][1], c.range["52W"][2])
    /\ Within(r["52W High"], c.range["52W"][1], c.range["52W"][2])

Kept(rows, c) == LET keep(r) == Satisfies(r, c) IN SelectSeq(rows, keep)

C2_Category ==
    pc = "format" =>
        /\ (crit.sector = {} /\ crit.industry = {}) =>
              \A r \in Range(Fetched.rows) :
                  (SingleFieldOk(r, crit) /\ Range52WOk(r, crit)) => r \in Range(data.rows)
        /\ crit.sector # {} => \A r \in Range(data.rows) : r["Sector"] \in crit.sector
        /\ crit.industry # {} => \A r \in Range(data.rows) : r["Industry"] \in crit.industry
        /\ \A r \in Range(Fetched.rows) :
              (/\ crit.sector # {} => r["Sector"] \in crit.sector
               /\ crit.industry # {} => r["Industry"] \in crit.industry
               /\ SingleFieldOk(r, crit)
               /\ Range52WOk(r, crit)) => r \in Range(data.rows)

\* C2 witness: a sector selection that keeps one fetched row and removes
\* another whose Sector is not selected.
C2_Witness ==
    /\ pc = "format"
    /\ crit.sector # {}
    /\ data.rows # <<>>
    /\ \E r \in Range(Fetched.rows) :
         r["Sector"] \notin crit.sector /\ r \notin Range(data.rows)

\* C3: a fetched row with a null in any numerically filtered field is never
\* in the filtered table, whatever the ranges are.
C3_NullExcluded ==
    pc = "format" =>
        \A r \in Range(Fetched.rows) :
            (\E col \in FilteredColumns : r[col] = None) => r \notin Range(data.rows)

\* C3 witness: a range narrower than the default on a field that is null in
\* a fetched row; the row is gone after the filter stage.
C3_Witness ==
    /\ pc = "format"
    /\ \E n \in SingleFieldCriteria :
         /\ crit.range[n] # Sliders[n]
         /\ \E r \in Range(Fetched.rows) : r[n] = None /\ r \notin Range(data.rows)

Complete(r) ==
    /\ \A col \in NumericColumns : r[col] # None
    /\ r["Next Earnings"] # NoDate

\* C4 as stated: when every fetched row is complete, the default widget
\* values (full slider ranges, nothing selected) remove no row.
C4_Identity ==
    (/\ pc = "format"
     /\ crit = Default
     /\ \A r \in Range(Fetched.rows) : Complete(r)) => data.rows = Fetched.rows

\* C7: the rows shown are the fetched rows that pass the criteria evaluated
\* on the fetched (fractional) values; in the table shown the three percent
\* columns are 100 times the fetched value and every other numeric column
\* is the fetched value.
C7_FractionalThenScaled ==
    (pc = "start" /\ shown # <<>>) =>
        LET kept == Kept(Fetched.rows, crit)
            out  == shown[1].rows
        IN  /\ Len(out) = Len(kept)
            /\ \A k \in 1..Len(out) : \A col \in NumericColumns :
                  out[k][col] = IF col \in PercentColumns
                                THEN Some(100 * kept[k][col][1])
                                ELSE kept[k][col]

\* C7 witness: a yield range of [2%, 2%] keeps a row fetched with the yield
\* 0.02, shown as 2.00, and drops another row.
C7_Witness ==
    /\ pc = "start"
    /\ shown # <<>>
    /\ crit.range["Dividend Yield"] = Narrowed["Dividend Yield"]
    /\ \E k \in 1..Len(shown[1].rows) :
         /\ shown[1].rows[k]["Dividend Yield"] = Some(Fixed(2))
         /\ \E r \in Range(Fetched.rows) :
              r["Symbol"] = shown[1].rows[k]["Symbol"] /\ r["Dividend Yield"] = Some(2)
    /\ Len(shown[1].rows) < Len(Fetched.rows)

\* C10: among the rows that pass every other criterion, a row passes the
\* 52W Price Range [min, max] iff its 52W Low is not null and >= min and its
\* 52W High is not null and <= max.
C10_Range52W ==
    pc = "format" =>
        \A r \in Range(Fetched.rows) :
            (CategoryOk(r, crit) /\ SingleFieldOk(r, crit)) =>
                (r \in Range(data.rows) <=>
                    /\ r["52W Low"] # None
                    /\ r["52W High"] # None
                    /\ r["52W Low"][1] >= crit.range["52W"][1]
                    /\ r["52W High"][1] <= crit.range["52W"][2])

\* C10 witness: a row whose 52W Low is above its 52W High, and above the
\* range's max, passes a narrowed 52W range.
C10_Witness ==
    /\ pc = "format"
    /\ crit.range["52W"] = Narrowed["52W"]
    /\ \E r \in Range(data.rows) :
         /\ r["52W Low"][1] > r["52W High"][1]
         /\ r["52W Low"][1] > crit.range["52W"][2]

Symbols(rows) == [k \in 1..Len(rows) |-> rows[k]["Symbol"]]
NotRaised(syms) == LET ok(x) == x \notin raised IN SelectSeq(syms, ok)

\* C5: while fetch_stock_data loops and in what it returns, the rows are
\* whole rows, one for each symbol already visited whose request did not
\* raise, in the order requested; the loop visits every symbol whatever
\* raised before, and no exception leaves the function.
C5_FetchBestEffort ==
    /\ pc = "loop" =>
          /\ err = ""
          /\ Symbols(data_list) = NotRaised(SubSeq(tickers, 1, i - 1))
          /\ \A r \in Range(data_list) : DOMAIN r = Columns
    /\ pc = "filter" => err = "" /\ i = Len(tickers) + 1
    /\ \A e \in metricsCache :
          /\ Symbols(e.value.rows) = NotRaised(e.key)
          /\ \A r \in Range(e.value.rows) : DOMAIN r = Columns

\* C5 witness: the first symbol's request raised and a later symbol has its
\* row in the returned table.
C5_Witness ==
    \E e \in metricsCache :
        /\ Len(e.key) >= 2
        /\ e.key[1] \in raised
        /\ \E r \in Range(e.value.rows) : r["Symbol"] = e.key[2]

\* C6 as stated: the filter stage never ends in an exception.
C6_FilterNeverRaises == err # "filter KeyError"

\* Both caches hold what this session's runs ask for
Warm ==
    /\ catalogCache # <<>>
    /\ \E e \in metricsCache : e.key = Column(catalogCache[1], "Symbol")

\* C8: a populated cache entry is never changed or dropped, and once the
\* catalog and the metrics of its symbol list are cached no step makes a
\* network call, and the filter stage starts from the cached table.
C8_CacheReadOnly ==
    [][ /\ catalogCache # <<>> => catalogCache' = catalogCache
        /\ metricsCache \subseteq metricsCache'
        /\ Warm =>
              /\ metricsCache' = metricsCache
              /\ netCalls' <= netCalls
              /\ (pc = "fetch" /\ pc' = "filter") =>
                    \E e \in metricsCache : e.key = tickers /\ data' = e.value
      ]_vars

\* C8 witness: a later run, served from both caches without a network call,
\* has filtered the cached table down under narrowed criteria.
C8_Witness ==
    /\ Warm
    /\ pc = "format"
    /\ netCalls = 0
    /\ crit.range # Sliders
    /\ Len(data.rows) < Len(Fetched.rows)

\* C9 as stated: a catalog-load error ends the run before any fetch and
\* without a table, and a run in which per-symbol requests raised is not
\* aborted.
C9_OnlyCatalogErrorAborts ==
    /\ err \in {"catalog KeyError", "catalog URLError"} =>
          /\ pc = "start"
          /\ tickers = <<>>
          /\ netCalls = 1
          /\ data = NoFrame
          /\ shown = <<>>
    /\ err = "filter KeyError" => raised = {}

====
